---- MODULE Spec2Model ----
(***************************************************************************)
(* Timed quiz client (src/App.py): one Streamlit session talking to the    *)
(* quiz Store through three RPCs.  A script run (auth_ui + render_quiz) is *)
(* one atomic step; st.rerun() and the one-second refresh schedule the     *)
(* next run.  The Store's side of the RPCs is not in src/ and is modelled  *)
(* from the specification (sections 4.2, 4.3, 6).                          *)
(*                                                                         *)
(* Reading of the source where its indentation is broken:                  *)
(*   - lines 172-199 are the "no attempt yet" branch: quiz picker, Start   *)
(*     button, and the run ends there when no attempt exists;              *)
(*   - lines 211-216 are taken as written: while the attempt is unsub-     *)
(*     mitted and time remains, the run sleeps one second and reruns, so   *)
(*     nothing below line 216 executes in such a run;                      *)
(*   - lines 272-284 are at function level: the two navigation buttons are *)
(*     rendered by every run that gets that far;                           *)
(*   - lines 286-298 follow inside the second column: the score is shown   *)
(*     by every run that gets past the buttons, from the local `results`   *)
(*     bound at line 262 or 266.                                           *)
(***************************************************************************)
EXTENDS Naturals, Integers, Sequences, FiniteSets, TLC

\* ---------------------------------------------------------------- bounds
SubSec == 2        \* clock units per second (sub-second resolution)
TimeLimit == 1     \* time_limit_seconds of the quiz
Slack == 3         \* clock units the clock may run past the first deadline
MaxAttempts == 2   \* attempts the Store will create

Horizon == TimeLimit * SubSec + Slack

\* ------------------------------------------------------------ quiz data
\* Scenario A of the specification: two questions, two choices each.
QS == <<"q1", "q2">>
QuestionIds == {QS[i] : i \in 1..Len(QS)}
ChoiceRow(id, q, body) == [id |-> id, question_id |-> q, body |-> body]
ChoiceRows ==
  { ChoiceRow("c1a", "q1", "A"), ChoiceRow("c1b", "q1", "B"),
    ChoiceRow("c2a", "q2", "A"), ChoiceRow("c2b", "q2", "B") }
ChoiceIds == {c.id : c \in ChoiceRows}
Bodies == {c.body : c \in ChoiceRows}
Correct == [q \in QuestionIds |-> IF q = "q1" THEN "c1a" ELSE "c2b"]
Null == "null"

\* Orders in which the choices query (no ORDER BY) may return its rows.
ChoiceOrders ==
  { <<ChoiceRow("c1a", "q1", "A"), ChoiceRow("c1b", "q1", "B"),
      ChoiceRow("c2a", "q2", "A"), ChoiceRow("c2b", "q2", "B")>>,
    <<ChoiceRow("c2b", "q2", "B"), ChoiceRow("c1b", "q1", "B"),
      ChoiceRow("c1a", "q1", "A"), ChoiceRow("c2a", "q2", "A")>> }

\* ------------------------------------------------------------ variables
VARIABLES
  now,       \* the clock, in units of 1/SubSec second
  user,      \* st.session_state["user"] is set
  attempt,   \* st.session_state["attempt"]: <<>> or <<record>>
  answers,   \* st.session_state["answers"]: <<>> or <<dict>>
  results,   \* st.session_state["results"]: <<>> or <<list>>
  store,     \* the Store's attempts, by attempt id
  sched,     \* the next script run already scheduled: "none", "rerun", "tick"
  page,      \* the widgets the last script run rendered
  msgs,      \* the messages the last script run displayed
  seen,      \* the remaining time the last script run computed: <<>> or <<record>>
  calls,     \* the do_submit invocations of the last script run
  probe      \* the timer specification's deadline value and its observations

vars == <<now, user, attempt, answers, results, store, sched, page, msgs, seen,
          calls, probe>>

\* ------------------------------------------------------------ the Store
\* A deadline as the Store returns it: an ISO string with an explicit offset.
Deadline(t) == [kind |-> "offset", t |-> t]

NoRow == [status |-> "none", started_at |-> 0, ends_at |-> 0,
          results |-> <<>>, scored |-> 0]

FreeIds(st) == {i \in 1..MaxAttempts : st[i].status = "none"}

Min(S) == CHOOSE x \in S : \A y \in S : x <= y

\* startAttempt(quizId) -> {attemptId, startedAt, endsAt}; endsAt = now + limit.
store_start_attempt(st, t) ==
  IF FreeIds(st) = {}
  THEN [store |-> st, data |-> <<>>]
  ELSE LET id == Min(FreeIds(st))
       IN [store |-> [st EXCEPT ![id] = [status |-> "in_progress",
                                         started_at |-> t,
                                         ends_at |-> t + TimeLimit * SubSec,
                                         results |-> <<>>, scored |-> 0]],
           data |-> <<[attempt_id |-> id, started_at |-> t,
                       ends_at |-> Deadline(t + TimeLimit * SubSec)]>>]

\* score(questions, choices, answers) -> Result[], in display order.
score(ans) ==
  [i \in 1..Len(QS) |->
     LET q == QS[i]
         given == {a \in ans : a.question_id = q}
         chosen == IF given = {} THEN Null
                   ELSE (CHOOSE a \in given : TRUE).chosen_choice_id
     IN [question_id |-> q, chosen_choice_id |-> chosen,
         correct_choice_id |-> Correct[q], is_correct |-> chosen = Correct[q]]]

\* finishAttempt(attemptId, answers): first call scores and flips the status,
\* later calls signal "already finished".
store_finish_attempt(st, id, ans) ==
  IF st[id].status = "finished"
  THEN [store |-> st, raised |-> "already finished", data |-> <<>>]
  ELSE IF st[id].status = "none"
  THEN [store |-> st, raised |-> "attempt not found", data |-> <<>>]
  ELSE [store |-> [st EXCEPT ![id].status = "finished",
                             ![id].results = score(ans),
                             ![id].scored = @ + 1],
        raised |-> "none", data |-> score(ans)]

\* getResults(attemptId) -> Result[]
store_get_results(st, id) == st[id].results

\* What the transport does to one RPC: "ok" delivers request and response,
\* "down" drops the request, "lost" delivers the request and drops the response.
Nets == {"ok", "down", "lost"}


\* F applied to the value of e (e is evaluated once).
With(e, F(_)) == CHOOSE r \in {F(x) : x \in {e}} : TRUE

\* ------------------------------------------------------------ RPC wrappers
\* The start row as the client receives it.  Its ends_at is whatever the
\* response carries: normally the Store's ISO string, but possibly a string
\* datetime.fromisoformat rejects ("garbage") or a null ("none").
Delivered(row, net) ==
  IF net \in {"garbage", "none"}
  THEN [row EXCEPT !.ends_at = [kind |-> net, t |-> @.t]]
  ELSE row

StartReply(st, r, net) ==
  IF net = "down" THEN [store |-> st, raised |-> TRUE, row |-> <<>>]
  ELSE IF net = "lost" \/ r.data = <<>>
  THEN [store |-> r.store, raised |-> TRUE, row |-> <<>>]
  ELSE [store |-> r.store, raised |-> FALSE, row |-> <<Delivered(r.data[1], net)>>]

rpc_start_attempt(st, t, net) ==
  With(store_start_attempt(st, t), LAMBDA r : StartReply(st, r, net))

FinishReply(st, r, net) ==
  IF net = "down" THEN [store |-> st, raised |-> "network", data |-> <<>>]
  ELSE IF net = "lost" THEN [store |-> r.store, raised |-> "network", data |-> <<>>]
  ELSE r

rpc_finish_attempt(st, id, ans, net) ==
  With(store_finish_attempt(st, id, ans), LAMBDA r : FinishReply(st, r, net))

\* get_results answering with an empty list.
rpc_get_results_Empty(st, id, net) ==
  IF net = "ok"
  THEN [raised |-> FALSE, data |-> <<>>]
  ELSE [raised |-> TRUE, data |-> <<>>]

rpc_get_results(st, id, net) ==
  IF net = "ok"
  THEN [raised |-> FALSE, data |-> store_get_results(st, id)]
  ELSE [raised |-> TRUE, data |-> <<>>]

\* ------------------------------------------------------------ timer helpers
\* int(x) of Python: truncation toward zero of n / d, d > 0.
IntTrunc(n, d) == IF n >= 0 THEN n \div d ELSE 0 - ((0 - n) \div d)

Max(a, b) == IF a >= b THEN a ELSE b

\* The kinds of value seconds_left can be handed: an ISO string with a
\* trailing "Z", with an explicit offset, or with no offset (all read as
\* UTC instants), a datetime object, a string that does not parse, or a
\* value of another type (None).
ParsedKinds == {"Z", "offset", "naive", "datetime"}

\* seconds_left without the max(0, ...) of line 158.
seconds_left_NoClamp(ends_at_val, t) ==
  IF ends_at_val.kind \in ParsedKinds
  THEN IntTrunc(ends_at_val.t - t, SubSec)
  ELSE 0

seconds_left(ends_at_val, t) ==
  IF ends_at_val.kind \in ParsedKinds
  THEN Max(0, IntTrunc(ends_at_val.t - t, SubSec))
  ELSE 0

\* ------------------------------------------------------------ one script run
\* The state a script run works on: the session keys, the Store, the clock,
\* and what the run has shown and scheduled so far.  halt: the run has ended
\* (st.rerun(), return, or an uncaught exception).
BlankPage == [login |-> FALSE, signout |-> FALSE, start |-> FALSE,
              radios |-> FALSE, submit_enabled |-> FALSE, nav |-> FALSE,
              fetched |-> FALSE, score |-> <<>>]

Begin ==
  [user |-> user, attempt |-> attempt, answers |-> answers, results |-> results,
   store |-> store, now |-> now, sched |-> "none", page |-> BlankPage,
   msgs |-> {}, seen |-> <<>>, calls |-> <<>>, halt |-> FALSE]

\* The cleanup leaving the cached results in the session.
PopAttemptKeys_KeepResults(s) ==
  [s EXCEPT !.attempt = <<>>, !.answers = <<>>]

\* for k in [...]: st.session_state.pop(k, None)
PopAttemptKeys(s) ==
  [s EXCEPT !.attempt = <<>>, !.answers = <<>>, !.results = <<>>]

StRerun(s) == [s EXCEPT !.sched = "rerun", !.halt = TRUE]

Show(s, m) == [s EXCEPT !.msgs = @ \cup {m}]

\* The widget event that triggered the run.
Ev(kind, q, label) == [kind |-> kind, q |-> q, label |-> label]
NoEv == Ev("none", "", "")

auth_ui(s, ev, authnet) ==
  IF s.user
  THEN IF ev.kind = "signout"
       THEN StRerun([PopAttemptKeys(s) EXCEPT !.user = FALSE, !.page.signout = TRUE])
       ELSE [s EXCEPT !.page.signout = TRUE]
  ELSE IF ev.kind = "login" /\ authnet = "ok"
       THEN StRerun([s EXCEPT !.user = TRUE, !.page.login = TRUE])
       ELSE IF ev.kind = "login"
       THEN Show([s EXCEPT !.page.login = TRUE], "Login failed")
       ELSE [s EXCEPT !.page.login = TRUE]

EmptyDict == [x \in {} |-> ""]

\* answers array for the RPC: one entry per key of the answers dict.
AnswersArray(ans) ==
  IF ans = <<>> THEN {}
  ELSE {[question_id |-> q, chosen_choice_id |-> ans[1][q]] : q \in DOMAIN ans[1]}

Snap(s) == [attempt |-> s.attempt, answers |-> s.answers, results |-> s.results]

\* The record of one do_submit invocation: what triggered it, the state it
\* found, the outcome of the RPC ("none": no RPC was made), the answers sent,
\* the message displayed and the state it left.
Logged(s, trigger, remaining, rpc, sent, pre, shown) ==
  [s EXCEPT !.calls = Append(@, [trigger |-> trigger, remaining |-> remaining,
                                 id |-> pre.attempt[1].id, rpc |-> rpc,
                                 sent |-> sent, shown |-> shown,
                                 pre |-> pre, post |-> Snap(s)])]

\* Variants of lines 310-326 with one slip each, v:
\*   "no flip"        line 313 missing: success caches the results only;
\*   "rescore"        the "already finished" branch caches results scored
\*                    locally from the answers just sent;
\*   "already fails"  the "already finished" message is not recognised;
\*   "error flips"    any exception marks the attempt submitted;
\*   "error clears"   a failed submit drops the cached answers;
\*   "error extends"  a failed submit moves the deadline one second ahead.
FinishVariant(s, trigger, remaining, sent, pre, r, v) ==
  IF r.raised = "none"
  THEN StRerun(Logged(
         Show([s EXCEPT !.store = r.store, !.results = <<r.data>>,
                        !.attempt = <<[s.attempt[1] EXCEPT
                                         !.submitted = (v # "no flip")]>>],
              "Submitted!"),
         trigger, remaining, "ok", sent, pre, "Submitted!"))
  ELSE IF r.raised = "already finished" /\ v # "already fails"
  THEN StRerun(Logged(
         Show([s EXCEPT !.store = r.store,
                        !.results = IF v = "rescore" THEN <<score(sent)>> ELSE @,
                        !.attempt = <<[s.attempt[1] EXCEPT !.submitted = TRUE]>>],
              "Attempt was already finished."),
         trigger, remaining, "already", sent, pre,
         "Attempt was already finished."))
  ELSE Logged(Show([s EXCEPT !.store = r.store,
                             !.answers = IF v = "error clears" THEN <<EmptyDict>> ELSE @,
                             !.attempt = <<[s.attempt[1] EXCEPT
                                              !.submitted = (v = "error flips"),
                                              !.ends_at =
                                                IF v = "error extends"
                                                THEN Deadline(s.now + SubSec)
                                                ELSE @]>>],
                   "Submit failed"),
              trigger, remaining,
              IF r.raised = "already finished" THEN "already" ELSE "error",
              sent, pre, "Submit failed")

FinishOutcome_NoFlip(s, trigger, remaining, sent, pre, r) ==
  FinishVariant(s, trigger, remaining, sent, pre, r, "no flip")

FinishOutcome_Rescore(s, trigger, remaining, sent, pre, r) ==
  FinishVariant(s, trigger, remaining, sent, pre, r, "rescore")

FinishOutcome_AlreadyFails(s, trigger, remaining, sent, pre, r) ==
  FinishVariant(s, trigger, remaining, sent, pre, r, "already fails")

FinishOutcome_ErrorFlips(s, trigger, remaining, sent, pre, r) ==
  FinishVariant(s, trigger, remaining, sent, pre, r, "error flips")

FinishOutcome_ErrorClears(s, trigger, remaining, sent, pre, r) ==
  FinishVariant(s, trigger, remaining, sent, pre, r, "error clears")

FinishOutcome_ErrorExtends(s, trigger, remaining, sent, pre, r) ==
  FinishVariant(s, trigger, remaining, sent, pre, r, "error extends")

\* Lines 310-326: what do_submit does with the outcome r of the finish RPC.
FinishOutcome(s, trigger, remaining, sent, pre, r) ==
  IF r.raised = "none"
  THEN StRerun(Logged(
         Show([s EXCEPT !.store = r.store, !.results = <<r.data>>,
                        !.attempt = <<[s.attempt[1] EXCEPT !.submitted = TRUE]>>],
              "Submitted!"),
         trigger, remaining, "ok", sent, pre, "Submitted!"))
  ELSE IF r.raised = "already finished"
  THEN StRerun(Logged(
         Show([s EXCEPT !.store = r.store,
                        !.attempt = <<[s.attempt[1] EXCEPT !.submitted = TRUE]>>],
              "Attempt was already finished."),
         trigger, remaining, "already", sent, pre,
         "Attempt was already finished."))
  ELSE Logged(Show([s EXCEPT !.store = r.store], "Submit failed"),
              trigger, remaining, "error", sent, pre, "Submit failed")

\* Lines 305-311: the answers array and the RPC.
SendFinish(s, trigger, remaining, sent, net) ==
  With(rpc_finish_attempt(s.store, s.attempt[1].id, sent, net),
       LAMBDA r : FinishOutcome(s, trigger, remaining, sent, Snap(s), r))

do_submit(s, trigger, remaining, net) ==
  IF s.attempt[1].submitted
  THEN Logged(s, trigger, remaining, "none", {}, Snap(s), "")
  ELSE With(AnswersArray(s.answers),
            LAMBDA sent : SendFinish(s, trigger, remaining, sent, net))

\* ------------------------------------------------------------ quiz content
\* fetch_quiz_bundle returns (questions, rows of choices); ([], []) when the
\* questions query fails or is empty, (questions, []) when the choices query
\* fails.
Bundle(qs, ch) == [qs |-> qs, ch |-> ch]
Bundles ==
  {Bundle(<<>>, <<>>), Bundle(QS, <<>>)} \cup {Bundle(QS, o) : o \in ChoiceOrders}

\* choices_by_q.get(qid, []): the rows of the question, in the order returned.
choices_by_q(ch, qid) == SelectSeq(ch, LAMBDA c : c.question_id = qid)

\* labels = {c["body"]: c["id"] for c in options}: a later row with the same
\* body replaces the id; the keys keep the order of first insertion.
LabelKeys(options) ==
  LET first == {i \in 1..Len(options) :
                  \A j \in 1..(i - 1) : options[j].body # options[i].body}
      F[k \in 0..Len(options)] ==
        IF k = 0 THEN <<>>
        ELSE IF k \in first THEN Append(F[k - 1], options[k].body) ELSE F[k - 1]
  IN F[Len(options)]

LabelId(options, body) ==
  LET last == CHOOSE i \in 1..Len(options) :
                /\ options[i].body = body
                /\ \A j \in (i + 1)..Len(options) : options[j].body # body
  IN options[last].id

InSeq(x, sq) == \E i \in 1..Len(sq) : sq[i] = x

\* The label st.radio returns for a question: the one the user just picked,
\* else the one the index argument selects (the label of the recorded answer,
\* else the first label).
RadioValue(options, dict, qid, ev) ==
  LET keys == LabelKeys(options)
      hits == {i \in 1..Len(keys) :
                 qid \in DOMAIN dict /\ LabelId(options, keys[i]) = dict[qid]}
      current_choice == IF hits = {} THEN <<>> ELSE <<keys[Min(hits)]>>
  IN IF ev.kind = "pick" /\ ev.q = qid /\ InSeq(ev.label, keys)
     THEN ev.label
     ELSE IF current_choice # <<>> THEN current_choice[1] ELSE keys[1]

DictPut(dict, k, v) ==
  [x \in (DOMAIN dict) \cup {k} |-> IF x = k THEN v ELSE dict[x]]

\* Lines 225-246: one radio per question; a question without options makes
\* labels[None] raise KeyError, which ends the run.
RenderOptions(s, options, ev, qid) ==
  IF options = <<>>
  THEN [Show(s, "KeyError") EXCEPT !.halt = TRUE]
  ELSE [s EXCEPT !.answers =
          <<DictPut(s.answers[1], qid,
                    LabelId(options, RadioValue(options, s.answers[1], qid, ev)))>>,
                 !.page.radios = TRUE]

RenderQuestion(s, b, ev, qid) ==
  With(choices_by_q(b.ch, qid), LAMBDA options : RenderOptions(s, options, ev, qid))

\* The rest of the run, F, unless the run has ended.
Unless(s, F(_)) == With(s, LAMBDA x : IF x.halt THEN x ELSE F(x))

RenderQuestions(s, b, ev) ==
  LET R[i \in 0..Len(b.qs)] ==
        IF i = 0 THEN s
        ELSE Unless(R[i - 1], LAMBDA x : RenderQuestion(x, b, ev, b.qs[i]))
  IN R[Len(b.qs)]

\* Lines 211 and 214: the run refreshes instead of rendering the form.
Ticking(a, remaining) == ~a.submitted /\ remaining > 0

\* Line 251.
SubmitDisabled(a, remaining) == a.submitted \/ remaining = 0

\* Line 256 without its "not submitted" test.
AutoSubmitDue_AtZero(a, remaining) == remaining = 0

\* Line 256.
AutoSubmitDue(a, remaining) == remaining = 0 /\ ~a.submitted

\* Lines 248-253.
SubmitHandlers(s, remaining, ev, net) ==
  With([s EXCEPT !.page.submit_enabled = ~SubmitDisabled(s.attempt[1], remaining)],
       LAMBDA x : IF ev.kind = "submit"
                  THEN do_submit(x, "manual", remaining, net)
                  ELSE x)

\* The auto-submit calling do_submit a second time when the first failed.
Autosubmit_Retry(s, remaining, net) ==
  IF AutoSubmitDue(s.attempt[1], remaining)
  THEN Unless(With(Show(s, "Time is up!"),
                   LAMBDA x : do_submit(x, "auto", remaining, net)),
              LAMBDA y : do_submit(y, "auto", remaining, net))
  ELSE s

\* Lines 255-258.
Autosubmit(s, remaining, net) ==
  IF AutoSubmitDue(s.attempt[1], remaining)
  THEN With(Show(s, "Time is up!"),
            LAMBDA x : do_submit(x, "auto", remaining, net))
  ELSE s

\* `not results` of line 263, for results = session.get("results", []).
NoResults(res) == res = <<>> \/ res[1] = <<>>

\* Lines 265-270 with a failed fetch reopening the attempt.
FetchedResults_Reopen(s, r) ==
  IF r.raised
  THEN [Show(s, "Failed to fetch results") EXCEPT
          !.halt = TRUE,
          !.attempt = <<[s.attempt[1] EXCEPT !.submitted = FALSE]>>]
  ELSE [s EXCEPT !.results = <<r.data>>, !.page.fetched = TRUE]

\* Lines 260-270.
FetchedResults(s, r) ==
  IF r.raised
  THEN [Show(s, "Failed to fetch results") EXCEPT !.halt = TRUE]
  ELSE [s EXCEPT !.results = <<r.data>>, !.page.fetched = TRUE]

\* The results view recomputing the Results from the form on every run.
ResultsView_Local(s, net) ==
  IF s.attempt[1].submitted
  THEN [s EXCEPT !.results = <<score(AnswersArray(s.answers))>>]
  ELSE s

ResultsView(s, net) ==
  IF s.attempt[1].submitted /\ NoResults(s.results)
  THEN With(rpc_get_results(s.store, s.attempt[1].id, net),
            LAMBDA r : FetchedResults(s, r))
  ELSE s

\* Lines 272-284.
AfterResults(s, ev) ==
  IF ev.kind \in {"again", "back"}
  THEN StRerun(PopAttemptKeys([s EXCEPT !.page.nav = TRUE]))
  ELSE [s EXCEPT !.page.nav = TRUE]

\* Lines 286-298, as indented inside the second column: the score line and
\* the per-question lines are computed from the local `results`, which is
\* bound only in the branch of line 261; for an unsubmitted attempt the name
\* is unbound and line 288 raises NameError.
CorrectCount(res) == Cardinality({i \in 1..Len(res) : res[i].is_correct})

\* The score line counting only the questions that were answered.
ScoreView_Answered(s) ==
  IF s.attempt[1].submitted
  THEN [s EXCEPT !.page.score =
          <<CorrectCount(s.results[1]),
            Cardinality({i \in 1..Len(s.results[1]) :
                           s.results[1][i].chosen_choice_id # Null})>>]
  ELSE [Show(s, "NameError") EXCEPT !.halt = TRUE]

ScoreView(s) ==
  IF s.attempt[1].submitted
  THEN [s EXCEPT !.page.score = <<CorrectCount(s.results[1]), Len(s.results[1])>>]
  ELSE [Show(s, "NameError") EXCEPT !.halt = TRUE]

\* The nondeterministic inputs of one run: the outcome of each call it makes.
Inputs(auth, start, bundle, manual, auto, get) ==
  [auth |-> auth, start |-> start, bundle |-> bundle,
   manual |-> manual, auto |-> auto, get |-> get]

\* Lines 200-298: the run with an attempt in the session.
ActiveWith(s, ev, in, remaining) ==
  IF Ticking(s.attempt[1], remaining)
  THEN [s EXCEPT !.now = @ + SubSec, !.sched = "tick", !.halt = TRUE]
  ELSE Unless(Unless(Unless(Unless(Unless(
         RenderQuestions(s, in.bundle, ev),
         LAMBDA x : SubmitHandlers(x, remaining, ev, in.manual)),
         LAMBDA x : Autosubmit(x, remaining, in.auto)),
         LAMBDA x : ResultsView(x, in.get)),
         LAMBDA x : AfterResults(x, ev)),
         LAMBDA x : ScoreView(x))

\* Line 206.
Observed(s, remaining) ==
  [s EXCEPT !.seen = <<[t |-> s.now, remaining |-> remaining,
                        ends_at |-> s.attempt[1].ends_at,
                        submitted |-> s.attempt[1].submitted]>>]

ActiveAttempt(s, ev, in) ==
  With(seconds_left(s.attempt[1].ends_at, s.now),
       LAMBDA remaining :
         With(Observed(s, remaining), LAMBDA x : ActiveWith(x, ev, in, remaining)))

\* Lines 172-199: no attempt in the session.
Started(s, r) ==
  IF r.raised
  THEN Show([s EXCEPT !.store = r.store], "Could not start attempt")
  ELSE StRerun([s EXCEPT
         !.store = r.store,
         !.attempt = <<[id |-> r.row[1].attempt_id,
                        quiz_id |-> "quiz",
                        started_at |-> r.row[1].started_at,
                        ends_at |-> r.row[1].ends_at,
                        submitted |-> FALSE]>>,
         !.answers = <<EmptyDict>>])

StartBlock(s, ev, in) ==
  IF ev.kind = "start"
  THEN With(rpc_start_attempt(s.store, s.now, in.start),
            LAMBDA r : Started(PopAttemptKeys([s EXCEPT !.page.start = TRUE]), r))
  ELSE [s EXCEPT !.page.start = TRUE]

render_quiz(s, ev, in) ==
  IF ~s.user THEN s
  ELSE IF s.attempt = <<>> THEN StartBlock(s, ev, in)
  ELSE ActiveAttempt(s, ev, in)

\* Lines 329-331.
Main(ev, in) ==
  Unless(auth_ui(Begin, ev, in.auth), LAMBDA x : render_quiz(x, ev, in))

Commit(s) ==
  /\ now' = s.now
  /\ user' = s.user
  /\ attempt' = s.attempt
  /\ answers' = s.answers
  /\ results' = s.results
  /\ store' = s.store
  /\ sched' = s.sched
  /\ page' = s.page
  /\ msgs' = s.msgs
  /\ seen' = s.seen
  /\ calls' = s.calls
  /\ UNCHANGED probe

Script(ev, in) == \E s \in {Main(ev, in)} : Commit(s)

\* ------------------------------------------------------------ actions
Init ==
  /\ now = 0
  /\ user = FALSE
  /\ attempt = <<>>
  /\ answers = <<>>
  /\ results = <<>>
  /\ store = [i \in 1..MaxAttempts |-> NoRow]
  /\ sched = "rerun"
  /\ page = BlankPage
  /\ msgs = {}
  /\ seen = <<>>
  /\ calls = <<>>
  /\ probe = <<>>

B0 == Bundle(<<>>, <<>>)

\* The clock advances by one unit.
ClockAdvance ==
  /\ now < Horizon
  /\ now' = now + 1
  /\ UNCHANGED <<user, attempt, answers, results, store, sched, page, msgs, seen,
                 calls, probe>>

\* The outcome of a call is drawn only in the runs that can make the call:
\* the bundle is fetched and the form rendered unless the run refreshes at
\* line 216, finish is called only for an unsubmitted attempt, and the
\* results are fetched only for a submitted attempt without cached results.
Rendering ==
  /\ user /\ attempt # <<>>
  /\ ~Ticking(attempt[1], seconds_left(attempt[1].ends_at, now))
BundlesHere == IF Rendering THEN Bundles ELSE {B0}
FinishNets == IF Rendering /\ ~attempt[1].submitted THEN Nets ELSE {"ok"}
GetNets ==
  IF Rendering /\ attempt[1].submitted /\ NoResults(results)
  THEN {"ok", "down"} ELSE {"ok"}

\* The run st.rerun() asked for (and the session's first run).
Rerun ==
  /\ sched = "rerun"
  /\ \E b \in BundlesHere, n \in FinishNets, g \in GetNets :
       Script(NoEv, Inputs("ok", "ok", b, "ok", n, g))

\* The run the one-second refresh of lines 211-216 asked for.
Tick ==
  /\ sched = "tick"
  /\ \E b \in BundlesHere, n \in FinishNets, g \in GetNets :
       Script(NoEv, Inputs("ok", "ok", b, "ok", n, g))

Login ==
  /\ sched # "rerun" /\ page.login
  /\ \E auth \in {"ok", "down"} :
       Script(Ev("login", "", ""), Inputs(auth, "ok", B0, "ok", "ok", "ok"))

SignOut ==
  /\ sched # "rerun" /\ page.signout
  /\ Script(Ev("signout", "", ""), Inputs("ok", "ok", B0, "ok", "ok", "ok"))

StartQuiz ==
  /\ sched # "rerun" /\ page.start
  /\ now + TimeLimit * SubSec <= Horizon
  /\ \E n \in Nets :
       Script(Ev("start", "", ""), Inputs("ok", n, B0, "ok", "ok", "ok"))

\* The widgets of the quiz form the user can act on: a radio of a rendered
\* question, and the Submit button when it was rendered enabled.
FormEvents ==
  {Ev("pick", c.question_id, c.body) : c \in {r \in ChoiceRows : page.radios}}
    \cup {e \in {Ev("submit", "", "")} : page.submit_enabled}

FormInteraction ==
  /\ sched # "rerun"
  /\ \E ev \in FormEvents, b \in BundlesHere, n \in FinishNets, g \in GetNets :
       \E m \in IF ev.kind = "submit" THEN FinishNets ELSE {"ok"} :
         Script(ev, Inputs("ok", "ok", b, m, n, g))

TakeAgain ==
  /\ sched # "rerun" /\ page.nav
  /\ \E b \in BundlesHere, n \in FinishNets, g \in GetNets :
       Script(Ev("again", "", ""), Inputs("ok", "ok", b, "ok", n, g))

BackToList ==
  /\ sched # "rerun" /\ page.nav
  /\ \E b \in BundlesHere, n \in FinishNets, g \in GetNets :
       Script(Ev("back", "", ""), Inputs("ok", "ok", b, "ok", n, g))

Next ==
  \/ ClockAdvance
  \/ Rerun
  \/ Tick
  \/ Login
  \/ SignOut
  \/ StartQuiz
  \/ FormInteraction
  \/ TakeAgain
  \/ BackToList

Spec == Init /\ [][Next]_vars

\* What the session's scheduling guarantees: the clock advances and a run
\* that was scheduled (st.rerun(), the one-second refresh) takes place.  A
\* run triggered by the user is not guaranteed to happen.
FairSpec ==
  Spec /\ WF_vars(ClockAdvance) /\ WF_vars(Rerun) /\ WF_vars(Tick)

\* ------------------------------------------------------------ odd deadlines
\* The same session when every start response carries an ends_at that is
\* missing or does not parse.  No run of such a session finds time left, so
\* the one-second refresh is never scheduled; the navigation buttons are
\* left out.
StartQuizOdd ==
  /\ sched # "rerun" /\ page.start
  /\ now + TimeLimit * SubSec <= Horizon
  /\ \E k \in {"garbage", "none"} :
       Script(Ev("start", "", ""), Inputs("ok", k, B0, "ok", "ok", "ok"))

DeadlineNext ==
  \/ ClockAdvance
  \/ Rerun
  \/ Login
  \/ SignOut
  \/ StartQuizOdd
  \/ FormInteraction

DeadlineSpec == Init /\ [][DeadlineNext]_vars

\* ------------------------------------------------------------ timer specification
\* seconds_left on its own: a deadline value drawn from every kind of value
\* and every instant up to the horizon, observed at the clock's successive
\* readings.  probe keeps the deadline and the last two observations.
DeadlineKinds == ParsedKinds \cup {"garbage", "none"}
DeadlineValues == {[kind |-> k, t |-> e] : k \in DeadlineKinds, e \in 0..Horizon}

TimerInit ==
  /\ now = 0 /\ user = FALSE /\ attempt = <<>> /\ answers = <<>> /\ results = <<>>
  /\ store = [i \in 1..MaxAttempts |-> NoRow]
  /\ sched = "none" /\ page = BlankPage /\ msgs = {} /\ seen = <<>> /\ calls = <<>>
  /\ probe \in {<<[ends_at |-> v, obs |-> <<>>]>> : v \in DeadlineValues}

LastTwo(sq) == IF Len(sq) <= 2 THEN sq ELSE Tail(sq)

TimerObserve ==
  /\ probe' = <<[probe[1] EXCEPT !.obs =
                   LastTwo(Append(@, [t |-> now,
                                      left |-> seconds_left(probe[1].ends_at, now)]))]>>
  /\ UNCHANGED <<now, user, attempt, answers, results, store, sched, page, msgs,
                 seen, calls>>

TimerNext == ClockAdvance \/ TimerObserve

TimerSpec == TimerInit /\ [][TimerNext]_vars

\* ------------------------------------------------------------ properties
Live == attempt # <<>>
Cached == ~NoResults(results)
Calls == {calls[i] : i \in 1..Len(calls)}

\* C1: finish is idempotent per attempt.  A do_submit whose finish RPC
\* succeeded leaves the attempt submitted with the Results the Store computed,
\* scored once; and from then on every step that keeps the attempt keeps it
\* submitted with the same cached Results and the same Store record, whatever
\* answers the session holds: no later run sends a finish RPC or rescores.
C1_FirstSuccess ==
  \A c \in Calls :
    /\ c.rpc = "ok" =>
         /\ c.post.attempt[1].submitted
         /\ c.post.results = <<store[c.id].results>>
         /\ store[c.id].scored = 1
    /\ c.pre.attempt[1].submitted => (c.rpc = "none" /\ c.post = c.pre)

C1_LaterStep ==
  (Live /\ attempt[1].submitted /\ Cached
     /\ attempt' # <<>> /\ attempt'[1].id = attempt[1].id)
  => /\ attempt'[1].submitted
     /\ results' = results
     /\ store'[attempt[1].id] = store[attempt[1].id]

C1_FinishIdempotent == [] C1_FirstSuccess /\ [][C1_LaterStep]_vars

\* The position of a question's Result in a Result list.
ResultIndex(res, q) == CHOOSE i \in 1..Len(res) : res[i].question_id = q

\* A submitted attempt with cached Results whose form now holds an answer
\* different from the one scored, after a run that made no finish call.
C1_Witness ==
  /\ Live /\ attempt[1].submitted /\ Cached /\ calls = <<>> /\ page.nav
  /\ answers # <<>>
  /\ \E q \in DOMAIN answers[1] :
       answers[1][q] # results[1][ResultIndex(results[1], q)].chosen_choice_id

\* C2 as claimed: the attempt is submitted if and only if Results are cached.
C2_Original == Live => (attempt[1].submitted <=> Cached)

\* C2 amended: Results are cached only for a submitted attempt, and an attempt
\* is submitted only when the Store holds it finished with its Results; a
\* submitted attempt may have no cached Results (after "already finished",
\* until the fallback fetch succeeds).
C2_Amended ==
  Live =>
    /\ Cached => attempt[1].submitted
    /\ Cached => results[1] = store[attempt[1].id].results
    /\ attempt[1].submitted =>
         /\ store[attempt[1].id].status = "finished"
         /\ store[attempt[1].id].results # <<>>

\* Submitted through the "already finished" branch, nothing cached yet.
C2_Witness ==
  /\ Live /\ attempt[1].submitted /\ ~Cached
  /\ store[attempt[1].id].status = "finished"
  /\ \E c \in Calls : c.rpc = "already"

\* C3: of the finish calls racing for one attempt exactly one scores it.  The
\* Store scores an attempt once, when it finishes it; a call that finds it
\* finished takes the success path: the attempt becomes submitted, nothing is
\* rescored or cached from the answers it sent, the Store record is the
\* winner's, and any Results the session caches are the winner's.
C3_OneWinner ==
  /\ \A id \in 1..MaxAttempts :
       store[id].scored = IF store[id].status = "finished" THEN 1 ELSE 0
  /\ \A c \in Calls :
       c.rpc = "already" =>
         /\ c.post.attempt[1].submitted
         /\ c.post.results = c.pre.results
         /\ store[c.id].status = "finished"
  /\ (Live /\ Cached) => results[1] = store[attempt[1].id].results

\* A losing call whose answers differ from the ones the winner was scored on.
C3_Witness ==
  \E c \in Calls :
    /\ c.rpc = "already"
    /\ store[c.id].results # score(c.sent)

\* C4: for a deadline that parses, seconds_left never increases from one
\* observation to a later one, is a natural number, and is 0 at and after the
\* deadline.
C4_Remaining ==
  (probe # <<>> /\ probe[1].ends_at.kind \in ParsedKinds) =>
    \A i \in 1..Len(probe[1].obs) :
      /\ probe[1].obs[i].left \in Nat
      /\ probe[1].obs[i].t >= probe[1].ends_at.t => probe[1].obs[i].left = 0
      /\ \A j \in 1..Len(probe[1].obs) :
           i < j => probe[1].obs[j].left <= probe[1].obs[i].left

\* Two observations, the first with time left, the second after the deadline.
C4_Witness ==
  /\ probe # <<>> /\ probe[1].ends_at.kind \in ParsedKinds
  /\ Len(probe[1].obs) = 2
  /\ probe[1].obs[1].left > 1
  /\ probe[1].obs[2].t > probe[1].ends_at.t
  /\ probe[1].obs[2].left = 0

\* C5 as claimed: a run reports floor(endsAt - t) before the deadline and 0
\* from the deadline on, and a run that finds 0 for an unsubmitted attempt
\* calls do_submit in that same run.
C5_Original ==
  seen # <<>> =>
    /\ seen[1].remaining =
         IF seen[1].t < seen[1].ends_at.t
         THEN (seen[1].ends_at.t - seen[1].t) \div SubSec
         ELSE 0
    /\ (seen[1].remaining = 0 /\ ~seen[1].submitted) =>
         \E c \in Calls : c.trigger = "auto"


\* A step that is a script run rather than the clock advancing.
ClockStep ==
  /\ now' = now + 1
  /\ UNCHANGED <<user, attempt, answers, results, store, sched, page, msgs, seen,
                 calls, probe>>

\* A run that called do_submit; one in which the finish RPC succeeded.
FinishCalled == ~ClockStep /\ calls' # <<>>
FinishAnswered ==
  ~ClockStep /\ \E i \in 1..Len(calls') : calls'[i].rpc \in {"ok", "already"}

\* The Store eventually answers: if finish keeps being called, it is
\* answered successfully again and again.
StoreAnswers == []<><<FinishCalled>>_vars => []<><<FinishAnswered>>_vars

InProgress == Live /\ ~attempt[1].submitted
FinishedOrDropped == attempt = <<>> \/ attempt[1].submitted
FinishFailed == \E c \in Calls : c.rpc = "error"

\* C6 as claimed, in the case the claim singles out: with the clock
\* advancing, scheduled runs taking place and the Store eventually answering,
\* an attempt whose finish call failed with a store error when its time was
\* up is eventually finished (or discarded by the user); it is not left in
\* progress forever.
C6_Original ==
  StoreAnswers => ((InProgress /\ FinishFailed) ~> FinishedOrDropped)

\* C7: a finish call answered "already finished" is a success: do_submit
\* shows the information message and not the failure, marks the attempt
\* submitted, schedules the rerun and caches nothing scored from the answers
\* it sent; the Results the session then caches are the ones the Store
\* computed when it finished the attempt.
C7_AlreadyIsSuccess ==
  /\ \A c \in Calls :
       c.rpc = "already" =>
         /\ c.shown = "Attempt was already finished."
         /\ "Attempt was already finished." \in msgs
         /\ c.post.attempt[1].submitted
         /\ c.post.answers = c.pre.answers
         /\ c.post.results = c.pre.results
         /\ sched = "rerun"
  /\ (Live /\ attempt[1].submitted /\ Cached) =>
       /\ results[1] = store[attempt[1].id].results
       /\ store[attempt[1].id].scored = 1

\* The run in which auto-submit was answered "already finished".
C7_Witness ==
  /\ Live /\ attempt[1].submitted /\ ~Cached /\ sched = "rerun"
  /\ msgs = {"Time is up!", "Attempt was already finished."}
  /\ Len(calls) = 1 /\ calls[1].rpc = "already" /\ calls[1].trigger = "auto"

\* C8: a finish call that fails otherwise leaves attempt, answers and results
\* as do_submit found them, the attempt unsubmitted, and shows "Submit
\* failed"; and the next run that finds the time up and renders the form
\* calls do_submit again and sends the finish RPC.
C8_CleanFailure ==
  \A c \in Calls :
    c.rpc = "error" =>
      /\ c.post = c.pre
      /\ ~c.post.attempt[1].submitted
      /\ c.shown = "Submit failed"
      /\ "Submit failed" \in msgs

C8_RetryStep ==
  (/\ ~ClockStep
   /\ InProgress
   /\ \E c \in Calls : c.rpc = "error" /\ c.id = attempt[1].id
   /\ seen' # <<>> /\ seen'[1].remaining = 0
   /\ "KeyError" \notin msgs')
  => \E i \in 1..Len(calls') :
       calls'[i].id = attempt[1].id /\ calls'[i].rpc # "none"

C8_FailedFinish == [] C8_CleanFailure /\ [][C8_RetryStep]_vars

\* A failed auto-submit with answers recorded: nothing scheduled, attempt open.
C8_Witness ==
  /\ InProgress /\ sched = "none" /\ "Submit failed" \in msgs
  /\ answers # <<>> /\ DOMAIN answers[1] = QuestionIds
  /\ Len(calls) = 1 /\ calls[1].rpc = "error"
  /\ store[attempt[1].id].status = "in_progress"

\* C9: the status of an attempt only moves from in progress to finished: no
\* step takes a submitted attempt back to unsubmitted, the Store never
\* reopens a finished attempt, and an attempt that replaces another is a new,
\* unsubmitted one under an identifier the Store had not used.
C9_Step ==
  /\ (Live /\ attempt[1].submitted /\ attempt' # <<>>
        /\ attempt'[1].id = attempt[1].id) => attempt'[1].submitted
  /\ \A id \in 1..MaxAttempts :
       store[id].status = "finished" => store'[id].status = "finished"
  /\ (attempt' # <<>> /\ (attempt = <<>> \/ attempt'[1].id # attempt[1].id)) =>
       /\ store[attempt'[1].id].status = "none"
       /\ ~attempt'[1].submitted

C9_StatusOneWay == [][C9_Step]_vars

\* A submitted attempt after a run whose results fetch failed.
C9_Witness ==
  /\ Live /\ attempt[1].submitted /\ ~Cached
  /\ "Failed to fetch results" \in msgs

\* C10: do_submit is called only for an unsubmitted attempt, by the Submit
\* button in a run with time left or by the auto-submit in a run with none
\* (never by the button at 0), and the Store finishes an attempt only in a
\* run in which do_submit sent the finish RPC.
C10_Calls ==
  \A c \in Calls :
    /\ ~c.pre.attempt[1].submitted
    /\ \/ c.trigger = "manual" /\ c.remaining > 0
       \/ c.trigger = "auto" /\ c.remaining = 0

C10_FinishStep ==
  \A id \in 1..MaxAttempts :
    (store[id].status # "finished" /\ store'[id].status = "finished") =>
      \E i \in 1..Len(calls') :
        calls'[i].id = id /\ calls'[i].rpc \in {"ok", "error"}

C10_OnlyTriggers == [] C10_Calls /\ [][C10_FinishStep]_vars

\* An auto-submit at 0 that the Store answered.
C10_Witness ==
  \E c \in Calls :
    c.trigger = "auto" /\ c.remaining = 0 /\ c.rpc = "ok" /\ c.sent # {}

\* C11 as claimed: the answers sent to finish hold an entry for a question
\* only if the user selected a choice for it.  In particular a run that starts
\* with an empty answers mapping and no radio on the page, so that the user
\* cannot have selected anything, sends no entry.
C11_NothingSelected == Live /\ answers = <<EmptyDict>> /\ ~page.radios

C11_Step ==
  C11_NothingSelected => \A i \in 1..Len(calls') : calls'[i].sent = {}

C11_Original == [][C11_Step]_vars

\* C12 as claimed: for a deadline that is missing or does not parse
\* seconds_left is 0, and a run on an unsubmitted attempt with such a
\* deadline goes to automatic submission.
C12_Original ==
  (seen # <<>> /\ seen[1].ends_at.kind \notin ParsedKinds) =>
    /\ seen[1].remaining = 0
    /\ ~seen[1].submitted => \E c \in Calls : c.trigger = "auto"

\* C13: the deadline of an attempt is the one the Store returned when the
\* attempt was created, and no later step on the attempt changes it, in the
\* session or in the Store.
C13_Step ==
  /\ (Live /\ attempt' # <<>> /\ attempt'[1].id = attempt[1].id) =>
       attempt'[1].ends_at = attempt[1].ends_at
  /\ (attempt' # <<>> /\ (attempt = <<>> \/ attempt'[1].id # attempt[1].id)) =>
       attempt'[1].ends_at = Deadline(store'[attempt'[1].id].ends_at)
  /\ \A id \in 1..MaxAttempts :
       store[id].status # "none" => store'[id].ends_at = store[id].ends_at

C13_SetOnce == Live => attempt[1].ends_at = Deadline(store[attempt[1].id].ends_at)

C13_EndsAtFixed == [] C13_SetOnce /\ [][C13_Step]_vars

\* Past the deadline, after the submits and the run that fetched the
\* results: the deadline is still started_at plus the time limit.
C13_Witness ==
  /\ Live /\ attempt[1].submitted /\ Cached /\ page.fetched
  /\ now > attempt[1].ends_at.t
  /\ attempt[1].ends_at = Deadline(attempt[1].started_at + TimeLimit * SubSec)

\* C14: Results are produced once and then immutable.  Once the session
\* caches non-empty Results for an attempt, every step that keeps the attempt
\* keeps them as they are; and the Store scores an attempt at most once and
\* never alters the Results of a finished attempt.
C14_Step ==
  /\ (Live /\ Cached /\ attempt' # <<>> /\ attempt'[1].id = attempt[1].id) =>
       results' = results
  /\ \A id \in 1..MaxAttempts :
       store[id].status = "finished" =>
         /\ store'[id].results = store[id].results
         /\ store'[id].scored = store[id].scored

C14_ProducedOnce == \A id \in 1..MaxAttempts : store[id].scored <= 1

C14_ResultsImmutable == [] C14_ProducedOnce /\ [][C14_Step]_vars

\* The score is on the page, from cached Results that are no longer what the
\* form's current answers would score.
C14_Witness ==
  /\ Live /\ Cached /\ page.score # <<>>
  /\ results[1] # score(AnswersArray(answers))
  /\ results[1] = store[attempt[1].id].results

\* C15: the score on the page of a finished attempt is the number of
\* questions of the quiz whose Result is correct, over the number of
\* questions of the quiz, whatever answers were submitted.
C15_ScoreShown ==
  page.score # <<>> =>
    /\ Live /\ attempt[1].submitted /\ Cached
    /\ page.score[1] =
         Cardinality({q \in QuestionIds :
                        \E i \in 1..Len(results[1]) :
                          /\ results[1][i].question_id = q
                          /\ results[1][i].is_correct})
    /\ page.score[2] = Cardinality(QuestionIds)

\* One question answered correctly and the other wrongly: 1 / 2.
C15_Witness ==
  /\ page.score = <<1, 2>>
  /\ \E i, j \in 1..Len(results[1]) :
       /\ results[1][i].is_correct
       /\ ~results[1][j].is_correct /\ results[1][j].chosen_choice_id # Null

\* C16: round trip.  The Results a successful finish call returned are the
\* ones the Store recorded for the attempt, scored from the answers sent; and
\* the Results a run obtains through the fallback get_results are that same
\* record of the finished attempt.
C16_RoundTrip ==
  /\ \A c \in Calls :
       c.rpc = "ok" =>
         /\ store[c.id].results = score(c.sent)
         /\ c.post.results = <<score(c.sent)>>
  /\ page.fetched =>
       /\ Live /\ Cached
       /\ store[attempt[1].id].status = "finished"
       /\ results[1] = store[attempt[1].id].results

\* The run that fetched the Results of an attempt finished earlier and showed
\* its score.
C16_Witness ==
  /\ page.fetched /\ page.score # <<>> /\ calls = <<>>
  /\ results[1] = store[attempt[1].id].results

\* C17: no finish RPC is sent for an attempt the session has marked
\* submitted: a do_submit that finds it submitted makes no RPC, and a run that
\* starts with a submitted attempt sends nothing and leaves the Store's record
\* of it alone; and a run sends at most one finish RPC.
C17_Calls ==
  /\ \A c \in Calls : c.pre.attempt[1].submitted => c.rpc = "none"
  /\ Cardinality({i \in 1..Len(calls) : calls[i].rpc # "none"}) <= 1

C17_Step ==
  (~ClockStep /\ Live /\ attempt[1].submitted) =>
    /\ \A i \in 1..Len(calls') :
         calls'[i].id = attempt[1].id => calls'[i].rpc = "none"
    /\ store'[attempt[1].id] = store[attempt[1].id]

C17_NoSecondFinish == [] C17_Calls /\ [][C17_Step]_vars

\* The run that rendered the form with the button disabled, auto-submitted
\* once and was answered.
C17_Witness ==
  /\ Live /\ attempt[1].submitted /\ page.radios /\ ~page.submit_enabled
  /\ Len(calls) = 1 /\ calls[1].rpc = "ok"

\* C18 as claimed: every entry of the answers mapping maps a question of the
\* quiz to a choice of that question, and it is the choice the user picked.
\* In particular a run the user cannot have picked anything in (no radio was
\* on the page) adds no entry to the mapping of the attempt it keeps.
C18_Valid ==
  answers # <<>> =>
    \A q \in DOMAIN answers[1] :
      /\ q \in QuestionIds
      /\ \E c \in ChoiceRows : c.id = answers[1][q] /\ c.question_id = q

C18_PickStep ==
  (Live /\ ~page.radios /\ attempt' # <<>> /\ attempt'[1].id = attempt[1].id) =>
    \A q \in DOMAIN answers'[1] :
      q \in DOMAIN answers[1] /\ answers'[1][q] = answers[1][q]

C18_Original == [] C18_Valid /\ [][C18_PickStep]_vars

\* C19: attempt, answers and results leave the session together.  With no
\* attempt in the session there are no answers and no Results; a failed start
\* and a sign-out leave no attempt; and an attempt that appears in the session
\* is unsubmitted, with an empty answers mapping and no Results.
C19_Together ==
  /\ attempt = <<>> => (answers = <<>> /\ results = <<>>)
  /\ "Could not start attempt" \in msgs => attempt = <<>>
  /\ ~user => attempt = <<>>

C19_Step ==
  (attempt' # <<>> /\ (attempt = <<>> \/ attempt'[1].id # attempt[1].id)) =>
    /\ ~attempt'[1].submitted
    /\ answers' = <<EmptyDict>>
    /\ results' = <<>>

C19_DiscardedTogether == [] C19_Together /\ [][C19_Step]_vars

\* A second attempt just started after a first one was finished.
C19_Witness ==
  /\ Live /\ attempt[1].id = 2 /\ ~attempt[1].submitted
  /\ store[1].status = "finished"
  /\ answers = <<EmptyDict>> /\ results = <<>>

====
